---------------------------- MODULE Spec2Model ----------------------------
(***************************************************************************)
(* A model of ememdb_rs: the keyed document Collection of src/src/db.rs    *)
(* (insert / upsert / update / delete), the QueryBuilder and JoinBuilder   *)
(* of src/src/query.rs, and the TTL store of src/src/lib.rs (set / get     *)
(* with lazy eviction over a DashMap).                                     *)
(*                                                                         *)
(* Documents are JSON objects, modelled as functions from a subset of      *)
(* Fields to JSON values.  A JSON value is a record [t, v]:                *)
(*    [t |-> "num", v |-> n]   the JSON number n                           *)
(*    [t |-> "str", v |-> n]   a JSON string: for n >= 0 the decimal text  *)
(*                             of n ("0", "1", ...), for n < 0 some text   *)
(*                             that is not a number ("a", "b", ...)        *)
(* Option<T> is a sequence of length 0 (None) or 1 (Some).                 *)
(***************************************************************************)
EXTENDS Integers, Sequences, FiniteSets

\* ---------------------------------------------------------------- bounds
\* Largest identity: the Increment counter is capped here, and String /
\* Custom keys are the texts "1" .. "MaxId".
MaxId == 2
\* The clock is read at most MaxTime times after the first: it stands at
\* 0, 2, .. 2 * MaxTime seconds, so that a TTL of one second can lapse
\* between two calls.
MaxTime == 1

\* ---------------------------------------------------------------- values
Num(n) == [t |-> "num", v |-> n]
Str(n) == [t |-> "str", v |-> n]

None == <<>>
Some(x) == <<x>>

\* u64::to_string: the decimal text of n.
to_string(n) == Str(n)

\* Mutant: any value is taken for its text.
AsStrOfAny(val) == <<val>>

\* Value::as_str: Some(text) for a JSON string, None for anything else.
AsStr(val) == IF val.t = "str" THEN Some(val) ELSE None

\* Value::as_f64: Some(number) for a JSON number, None for anything else
\* (a string holding digits is not a number).
AsF64(val) == IF val.t = "num" THEN Some(val.v) ELSE None

\* The field names used by the model: the key field and one data field.
Fields == {"id", "age"}

\* Value::get(field) on an object: Some(value) when present.
Get(doc, field) == IF field \in DOMAIN doc THEN Some(doc[field]) ELSE None

\* Mutant: the write into the document is left out.
SetFieldSkipped(doc, field, val) == doc

\* document[field] = value (IndexMut on an object): insert or replace.
SetField(doc, field, val) ==
    [f \in (DOMAIN doc) \cup {field} |-> IF f = field THEN val ELSE doc[f]]

\* The texts Uuid::new_v4().to_string() can give (none of them a number).
UuidPool == {Str(0 - (10 + k)) : k \in 1..MaxId}

\* Key-field values a caller supplies: the texts "1".."MaxId", the UUID
\* texts, and the number 1 (a key that is not a string).
KeyInputs == {Str(k) : k \in 1..MaxId} \cup UuidPool \cup {Num(1)}

\* Data-field values a caller supplies: the number 1 and the text "1".
AgeInputs == {Num(1), Str(1)}

\* The documents a caller supplies: each field present or missing.
Documents ==
    {d \in UNION {[D -> KeyInputs \cup AgeInputs] : D \in SUBSET Fields} :
        /\ ("id" \in DOMAIN d => d["id"] \in KeyInputs)
        /\ ("age" \in DOMAIN d => d["age"] \in AgeInputs)}

\* Placeholder where an operation result carries no document.
NoDoc == [none |-> Num(0)]

\* config.rs TTL, and the Option<TTL> argument of insert / upsert.
NoTTL == [k |-> "NoTTL", s |-> 0]
GlobalTTL(s) == [k |-> "GlobalTTL", s |-> s]
CustomTTL(s) == [k |-> "CustomTTL", s |-> s]
\* The durations, in seconds, a caller passes in a TTL.
TtlSeconds == {1}
TtlArgs ==
    {None, Some(NoTTL)} \cup {Some(GlobalTTL(s)) : s \in TtlSeconds}
                        \cup {Some(CustomTTL(s)) : s \in TtlSeconds}

KeyTypes == {"Increment", "UUID", "String", "Custom"}

VARIABLES
    key_field,      \* Collection.key_field: Option<String>
    key_type,       \* Collection.key_type
    unique_keys,    \* Collection.unique_keys
    documents,      \* Collection.documents: identity -> DocumentEntry
    next_id,        \* Collection.next_id
    now,            \* SystemTime::now()
    last,           \* the call that is returning, with the value it returns
    returned,       \* identities the Increment strategy has returned so far
                    \* from successful inserts (history)
    query,          \* the QueryBuilder whose execute is returning
    results,        \* Option<Vec<Value>>: what that execute returns
    callbacks,      \* the observers registered on that QueryBuilder
    notified,       \* the observer invocations that execute has made
    target,         \* Collection.documents of the target collection of joins
    target_next_id, \* Collection.next_id of the target collection
    join,           \* the JoinBuilder whose execute is returning
    collections,    \* lib.rs InMemoryDB.collections: name -> documents map
    default_ttl,    \* lib.rs InMemoryDB.default_ttl: Option<u64>
    call,           \* the lib.rs call in progress, or the one that returned
    guards,         \* the keys whose DashMap shard the call in progress holds
                    \* a read guard (a Ref) on
    db_ttl,         \* db.rs InMemoryDB.default_ttl: the TTL the database
                    \* that builds the collection was made with
    threads,        \* per caller thread, the insert it has in flight
    config,         \* the CollectionConfig validate is called on
    validation,     \* Option<Result<(), String>>: what validate returned
    transformed,    \* the rows JoinBuilder::execute called map_function on
    registered      \* the clone of the collection that CollectionBuilder::build
                    \* stored in InMemoryDB.collections: its documents, next_id

vars == <<key_field, key_type, unique_keys, documents, next_id, now, last,
          returned, query, results, callbacks, notified, target, join,
          collections, default_ttl, call, guards,
          db_ttl, threads, config, validation, transformed, target_next_id,
          registered>>

\* The variables of the db.rs collection and of its queries.
dbvars == <<key_field, key_type, unique_keys, documents, next_id, last,
            returned, query, results, callbacks, notified, target, join,
            transformed, target_next_id>>

\* The variables of the lib.rs store.
libvars == <<collections, default_ttl, call, guards>>

\* The database's TTL, the caller threads and the configuration under
\* validation: no call on a collection handle, query or store touches them.
sidevars == <<db_ttl, threads, config, validation, registered>>

\* ----------------------------------------------------- operation results
Inserted(id, document) ==
    [kind |-> "Inserted", id |-> id, old_document |-> NoDoc,
     document |-> document, err |-> "none"]
Updated(id, old, new) ==
    [kind |-> "Updated", id |-> id, old_document |-> old,
     document |-> new, err |-> "none"]
Deleted(id, document) ==
    [kind |-> "Deleted", id |-> id, old_document |-> NoDoc,
     document |-> document, err |-> "none"]
Err(e) ==
    [kind |-> "Err", id |-> Str(0), old_document |-> NoDoc,
     document |-> NoDoc, err |-> e]

DocumentEntry(value, expiration) == [value |-> value, expiration |-> expiration]

\* Mutant: a call that fails leaves the counter as it found it.
OutcomeRollsBack(docs, nid, res) ==
    [documents |-> docs,
     next_id |-> IF res.kind = "Err" THEN next_id ELSE nid,
     res |-> res]

\* What a call leaves behind: the map, the counter and the returned value.
Outcome(docs, nid, res) == [documents |-> docs, next_id |-> nid, res |-> res]

\* Mutant: an entry already stored under the key is kept.
MapInsertKeepsExisting(docs, id, entry) ==
    [k \in (DOMAIN docs) \cup {id} |->
        IF k \in DOMAIN docs THEN docs[k] ELSE entry]

\* DashMap::insert: add the entry, replacing one stored under the same key.
MapInsert(docs, id, entry) ==
    [k \in (DOMAIN docs) \cup {id} |-> IF k = id THEN entry ELSE docs[k]]

\* DashMap::remove.
MapRemove(docs, id) == [k \in (DOMAIN docs) \ {id} |-> docs[k]]

\* ------------------------------------------------------ Collection::insert
\* Mutant: every insert advances the value the counter started with.
IncrementLost(n) == 1

\* Mutant: the counter is read but not advanced.
IncrementStuck(n) == n

\* self.next_id += 1
Increment(n) == n + 1

\* The TTL match of insert and of upsert: GlobalTTL / CustomTTL give
\* now + seconds, NoTTL and an absent TTL give None.
\* Mutant: an absent TTL falls back to the TTL of the database.
ExpirationDefaulting(ttl, t) ==
    LET used == IF ttl = None THEN db_ttl ELSE ttl[1] IN
    IF used.k \in {"GlobalTTL", "CustomTTL"} THEN Some(t + used.s) ELSE None

Expiration(ttl, t) ==
    IF ttl = None THEN None
    ELSE IF ttl[1].k \in {"GlobalTTL", "CustomTTL"} THEN Some(t + ttl[1].s)
    ELSE None

\* Mutant: the uniqueness loop ran before any other insert wrote.
DuplicateUniqueUnseen(docs, document, ukeys) == FALSE

\* Mutant: the uniqueness loop skips the entries whose expiration has passed.
DuplicateUniqueLiveOnly(docs, document, ukeys) ==
    \E u \in ukeys :
        /\ Get(document, u) # None
        /\ \E k \in DOMAIN docs :
              /\ docs[k].expiration = None \/ ~(now > docs[k].expiration[1])
              /\ Get(docs[k].value, u) = Get(document, u)

\* The uniqueness loop of insert: some unique key is present on the
\* document and some stored document holds an equal value for it.
DuplicateUnique(docs, document, ukeys) ==
    \E u \in ukeys :
        /\ Get(document, u) # None
        /\ \E k \in DOMAIN docs : Get(docs[k].value, u) = Get(document, u)

\* Collection::insert, with uuid the text Uuid::new_v4() gives.
InsertOutcome(docs, nid, document, ttl, uuid) ==
    IF key_field = None THEN Outcome(docs, nid, Err("KeyFieldNotSet"))
    ELSE
    LET kf == key_field[1]
        generated == key_type \in {"Increment", "UUID"}
        nid2 == IF key_type = "Increment" THEN Increment(nid) ELSE nid
    IN
    IF ~generated /\ Get(document, kf) = None
        THEN Outcome(docs, nid, Err("MissingKeyField"))
    ELSE IF ~generated /\ AsStr(Get(document, kf)[1]) = None
        THEN Outcome(docs, nid, Err("InvalidKeyType"))
    ELSE
    LET doc_id == IF key_type = "Increment" THEN to_string(nid2)
                  ELSE IF key_type = "UUID" THEN uuid
                  ELSE AsStr(Get(document, kf)[1])[1]
        doc2 == IF generated THEN SetField(document, kf, doc_id) ELSE document
        expiration == Expiration(ttl, now)
    IN
    IF DuplicateUnique(docs, doc2, unique_keys)
        THEN Outcome(docs, nid2, Err("DuplicateUniqueValue"))
    ELSE Outcome(MapInsert(docs, doc_id, DocumentEntry(doc2, expiration)),
                 nid2, Inserted(doc_id, doc2))

\* The texts new_v4 may give: it does not repeat an identity in use.
FreshUuids ==
    IF key_type = "UUID" THEN UuidPool \ DOMAIN documents ELSE {Str(0 - 11)}

Call(op, document, ttl, key, res) ==
    [op |-> op, document |-> document, ttl |-> ttl, key |-> key, res |-> res]

\* No call is in progress: the caller is between two calls.
Idle == Call("idle", NoDoc, None, Str(0), Err("none"))

\* ------------------------------------------------------------ QueryBuilder
\* The predicates eq, neq, gte, gt, lte and lt push onto filters: eq and neq
\* take a text, the others a number.
Filter(f, key, value) == [f |-> f, key |-> key, value |-> value]

\* str::parse::<f64>: Some(number) for a decimal text, None otherwise.
Parse(text) == IF text.v >= 0 THEN Some(text.v) ELSE None

\* The closure of eq.
EqMatches(doc, key, value) ==
    IF Get(doc, key) = None THEN FALSE
    ELSE LET val == Get(doc, key)[1] IN
         IF val.t = "num"
            THEN IF Parse(value) # None THEN val.v = Parse(value)[1] ELSE FALSE
         ELSE IF val.t = "str" THEN val = value
         ELSE FALSE

\* Mutant: neq rejects a document that lacks the key.
NeqMatchesNeedsKey(doc, key, value) ==
    IF Get(doc, key) = None THEN FALSE
    ELSE LET val == Get(doc, key)[1] IN
         IF val.t = "num"
            THEN IF Parse(value) # None THEN val.v # Parse(value)[1] ELSE TRUE
         ELSE IF val.t = "str" THEN val # value
         ELSE TRUE

\* The closure of neq.
NeqMatches(doc, key, value) ==
    IF Get(doc, key) = None THEN TRUE
    ELSE LET val == Get(doc, key)[1] IN
         IF val.t = "num"
            THEN IF Parse(value) # None THEN val.v # Parse(value)[1] ELSE TRUE
         ELSE IF val.t = "str" THEN val # value
         ELSE TRUE

\* The closures of gte, gt, lte and lt: the field is there, is a number and
\* compares as asked.
NumMatches(doc, key, cmp, value) ==
    /\ Get(doc, key) # None
    /\ AsF64(Get(doc, key)[1]) # None
    /\ LET num == AsF64(Get(doc, key)[1])[1] IN
       CASE cmp = "gte" -> num >= value
         [] cmp = "gt"  -> num > value
         [] cmp = "lte" -> num <= value
         [] cmp = "lt"  -> num < value

\* Mutant: gte compares with >.
GteMatchesStrict(doc, key, value) == NumMatches(doc, key, "gt", value)

GteMatches(doc, key, value) == NumMatches(doc, key, "gte", value)

\* The mappers a caller passes to QueryBuilder::map, each a Fn(&mut Value):
\* "zero" sets age to the number 0.
Mappers == {"zero"}
Mapper(mapper, doc) == SetField(doc, "age", Num(0))

\* QueryBuilder::map pushes a closure onto filters.
MapFilter(mapper) == Filter("map", "", mapper)

\* The closure of map: it clones the document, applies the mapper to the
\* clone, drops the clone and returns true.
MapMatches(doc, mapper) ==
    LET mutable_doc == Mapper(mapper, doc) IN TRUE

Matches(filter, doc) ==
    CASE filter.f = "map" -> MapMatches(doc, filter.value)
      [] filter.f = "eq"  -> EqMatches(doc, filter.key, filter.value)
      [] filter.f = "neq" -> NeqMatches(doc, filter.key, filter.value)
      [] filter.f = "gte" -> GteMatches(doc, filter.key, filter.value)
      [] filter.f \in {"gt", "lte", "lt"} ->
            NumMatches(doc, filter.key, filter.f, filter.value)

\* Mutant: only the first filter is consulted.
AllMatchFirstOnly(filters, doc) ==
    Len(filters) = 0 \/ Matches(filters[1], doc)

\* self.filters.iter().all(|filter| filter(&doc_value))
AllMatch(filters, doc) ==
    \A i \in 1..Len(filters) : Matches(filters[i], doc)

\* A text is the sequence of its pieces: a field name, "," , " " or "*".
\* str::split(","): the parts of the text between the commas.
RECURSIVE Split(_)
Split(text) ==
    IF \A i \in 1..Len(text) : text[i] # "," THEN <<text>>
    ELSE LET k == CHOOSE i \in 1..Len(text) :
                      text[i] = "," /\ \A j \in 1..(i - 1) : text[j] # ","
         IN  <<SubSeq(text, 1, k - 1)>> \o Split(SubSeq(text, k + 1, Len(text)))

\* str::trim: the text without the blanks at its two ends.
RECURSIVE Trim(_)
Trim(text) ==
    IF text = <<>> THEN text
    ELSE IF Head(text) = " " THEN Trim(Tail(text))
    ELSE IF text[Len(text)] = " " THEN Trim(SubSeq(text, 1, Len(text) - 1))
    ELSE text

\* The string a text is.
RECURSIVE Name(_)
Name(text) == IF text = <<>> THEN "" ELSE Head(text) \o Name(Tail(text))

\* Collection::select: "*", "" and " " select nothing (the whole document);
\* any other text is split at the commas and each part trimmed.
Select(fields) ==
    IF fields = <<"*">> \/ fields = <<>> \/ fields = <<" ">> THEN <<>>
    ELSE LET parts == Split(fields)
         IN  [i \in 1..Len(parts) |-> Name(Trim(parts[i]))]

\* Mutant: the selection is ignored.
ProjectWhole(selected_fields, doc) == doc

\* "Apply field selection": the whole document for an empty selection,
\* otherwise a new object with the selected fields the document has.
Project(selected_fields, doc) ==
    IF Len(selected_fields) = 0 THEN doc
    ELSE LET sel == {selected_fields[i] : i \in 1..Len(selected_fields)}
         IN  [f \in sel \cap DOMAIN doc |-> doc[f]]

QueryBuilder(selected_fields, filters) ==
    [selected_fields |-> selected_fields, filters |-> filters]

\* The orders in which DashMap::iter may yield the keys of docs.
IterOrders(docs) ==
    LET n == Cardinality(DOMAIN docs) IN
    {o \in [1..n -> DOMAIN docs] : \A i, j \in 1..n : o[i] = o[j] => i = j}

\* Mutant: the scan passes over the entries whose expiration has passed.
ExecuteResultSkipsExpired(docs, order, q) ==
    LET Keep(id) ==
            /\ AllMatch(q.filters, docs[id].value)
            /\ docs[id].expiration = None \/ now <= docs[id].expiration[1]
        kept == SelectSeq(order, Keep)
    IN  [i \in 1..Len(kept) |-> Project(q.selected_fields, docs[kept[i]].value)]

\* QueryBuilder::execute with no join registered, the map yielding its keys
\* in the given order.
ExecuteResult(docs, order, q) ==
    LET Keep(id) == AllMatch(q.filters, docs[id].value)
        kept == SelectSeq(order, Keep)
    IN  [i \in 1..Len(kept) |-> Project(q.selected_fields, docs[kept[i]].value)]

\* Ok(results) of execute.
Ok ==
    [kind |-> "Ok", id |-> Str(0), old_document |-> NoDoc,
     document |-> NoDoc, err |-> "none"]

\* on_success and on_fail store an observer in the builder; a caller
\* registers none, one or both.
CallbackSets == SUBSET {"on_success", "on_fail"}

\* Mutant: an empty result is reported as an error when on_fail is
\* registered.
ExecuteReturnFailsEmpty(docs, order, q, cbs) ==
    IF ExecuteResult(docs, order, q) = <<>> /\ "on_fail" \in cbs
    THEN [res |-> Err("empty"), value |-> <<>>, notified |-> <<>>]
    ELSE [res |-> Ok, value |-> ExecuteResult(docs, order, q),
          notified |-> <<>>]

\* What execute returns and which observers it invokes on the way: the
\* stored observers are never read, so Ok(results) and no invocation.
ExecuteReturn(docs, order, q, cbs) ==
    [res |-> Ok, value |-> ExecuteResult(docs, order, q), notified |-> <<>>]

\* No execute is returning.
NoQuery == QueryBuilder(<<>>, <<>>)

Apply(op, document, ttl, key, out) ==
    /\ UNCHANGED <<query, results, callbacks, notified, target, target_next_id, join, transformed>>
    /\ UNCHANGED <<libvars, sidevars>>
    /\ documents' = out.documents
    /\ next_id' = out.next_id
    /\ last' = Call(op, document, ttl, key, out.res)
    /\ returned' = IF key_type = "Increment" /\ out.res.kind = "Inserted"
                   THEN returned \cup {out.res.id} ELSE returned
    /\ UNCHANGED <<key_field, key_type, unique_keys, now>>

Insert(document, ttl) ==
    /\ key_type = "Increment" /\ key_field # None => next_id < MaxId
    /\ \E uuid \in FreshUuids :
          Apply("insert", document, ttl, Str(0),
                InsertOutcome(documents, next_id, document, ttl, uuid))

\* ------------------------------------------------------ Collection::upsert
\* The key-field extraction shared by upsert and update: Err when the
\* collection has no key field, the document lacks it, or it is no string.
KeyError(document) ==
    IF key_field = None THEN "KeyFieldNotSet"
    ELSE IF Get(document, key_field[1]) = None THEN "MissingKeyField"
    ELSE IF AsStr(Get(document, key_field[1])[1]) = None THEN "InvalidKeyType"
    ELSE "none"

DocId(document) == AsStr(Get(document, key_field[1])[1])[1]

\* Mutant: upsert keeps an expiration the entry already has.
UpsertEntryKeepsExpiration(old_entry, document, ttl, t) ==
    DocumentEntry(document,
                  IF old_entry.expiration # None THEN old_entry.expiration
                  ELSE Expiration(ttl, t))

\* The existing-identity branch of upsert: a new entry, value and
\* expiration, stored under the same key.
UpsertEntry(old_entry, document, ttl, t) ==
    DocumentEntry(document, Expiration(ttl, t))

\* Mutant: a document whose identity is not resident is stored under the
\* identity it supplies.
UpsertOutcomeKeepsSuppliedKey(docs, nid, document, ttl, uuid) ==
    IF KeyError(document) # "none" THEN Outcome(docs, nid, Err(KeyError(document)))
    ELSE
    LET doc_id == DocId(document) IN
    IF doc_id \in DOMAIN docs
        THEN Outcome(MapInsert(docs, doc_id,
                               UpsertEntry(docs[doc_id], document, ttl, now)),
                     nid, Updated(doc_id, docs[doc_id].value, document))
    ELSE Outcome(MapInsert(docs, doc_id,
                           DocumentEntry(document, Expiration(ttl, now))),
                 nid, Inserted(doc_id, document))

\* Mutant: upsert without the contains_key branch.
UpsertOutcomeInsertsAlways(docs, nid, document, ttl, uuid) ==
    IF KeyError(document) # "none" THEN Outcome(docs, nid, Err(KeyError(document)))
    ELSE InsertOutcome(docs, nid, document, ttl, uuid)

UpsertOutcome(docs, nid, document, ttl, uuid) ==
    IF KeyError(document) # "none" THEN Outcome(docs, nid, Err(KeyError(document)))
    ELSE
    LET doc_id == DocId(document) IN
    IF doc_id \in DOMAIN docs
        THEN Outcome(MapInsert(docs, doc_id,
                               UpsertEntry(docs[doc_id], document, ttl, now)),
                     nid, Updated(doc_id, docs[doc_id].value, document))
    ELSE InsertOutcome(docs, nid, document, ttl, uuid)

Upsert(document, ttl) ==
    /\ (/\ key_type = "Increment" /\ KeyError(document) = "none"
        /\ DocId(document) \notin DOMAIN documents) => next_id < MaxId
    /\ \E uuid \in FreshUuids :
          Apply("upsert", document, ttl, Str(0),
                UpsertOutcome(documents, next_id, document, ttl, uuid))

\* ------------------------------------------------------ Collection::update
\* Mutant: update stores a fresh entry, without the expiration.
UpdateEntryDropsExpiration(old_entry, document) ==
    DocumentEntry(document, None)

\* entry.value = document.clone(): the value is replaced in place.
UpdateEntry(old_entry, document) ==
    DocumentEntry(document, old_entry.expiration)

\* Mutant: update of an identity that is not resident stores the document.
UpdateOutcomeStoresMissing(docs, nid, document) ==
    IF KeyError(document) # "none" THEN Outcome(docs, nid, Err(KeyError(document)))
    ELSE
    LET doc_id == DocId(document) IN
    IF doc_id \in DOMAIN docs
        THEN Outcome(MapInsert(docs, doc_id, UpdateEntry(docs[doc_id], document)),
                     nid, Updated(doc_id, docs[doc_id].value, document))
    ELSE Outcome(MapInsert(docs, doc_id, DocumentEntry(document, None)),
                 nid, Err("NotFound"))

UpdateOutcome(docs, nid, document) ==
    IF KeyError(document) # "none" THEN Outcome(docs, nid, Err(KeyError(document)))
    ELSE
    LET doc_id == DocId(document) IN
    IF doc_id \in DOMAIN docs
        THEN Outcome(MapInsert(docs, doc_id, UpdateEntry(docs[doc_id], document)),
                     nid, Updated(doc_id, docs[doc_id].value, document))
    ELSE Outcome(docs, nid, Err("NotFound"))

Update(document) ==
    Apply("update", document, None, Str(0),
          UpdateOutcome(documents, next_id, document))

\* ------------------------------------------------------ Collection::delete
\* Mutant: delete reports the document but leaves the entry in the map.
DeleteOutcomeKeepsEntry(docs, nid, key) ==
    IF key \in DOMAIN docs
        THEN Outcome(docs, nid, Deleted(key, docs[key].value))
    ELSE Outcome(docs, nid, Err("NotFound"))

DeleteOutcome(docs, nid, key) ==
    IF key \in DOMAIN docs
        THEN Outcome(MapRemove(docs, key), nid, Deleted(key, docs[key].value))
    ELSE Outcome(docs, nid, Err("NotFound"))

Delete(key) ==
    Apply("delete", NoDoc, None, key, DeleteOutcome(documents, next_id, key))

\* ------------------------------------------------------- lib.rs InMemoryDB
\* The collection name, the document keys and the documents a caller of the
\* lib.rs store uses, and the TTLs, in seconds, it passes to set.
LibName == "users"
LibIds == {Str(k) : k \in 1..MaxId}
LibDocs == {[age |-> Num(1)], [age |-> Str(1)]}
LibTtls == {None, Some(0), Some(1)}

\* The doc_id "*" of InMemoryDB::get.
Star == Str(0 - 1)

\* What a lib.rs call returned: nothing yet, (), Option<Value>.
Pending == [kind |-> "pending", value |-> <<>>]
Unit == [kind |-> "unit", value |-> <<>>]
Absent == [kind |-> "none", value |-> <<>>]
Present(value) == [kind |-> "some", value |-> value]

\* A lib.rs call: pc is "returned" once it has returned ret, "remove" when
\* get is about to call documents.remove, "waiting" when that call waits
\* for the shard's write lock; expired tells that get found the entry with
\* an expiration in the past.
LibCall(op, id, pc, expired, ret) ==
    [op |-> op, id |-> id, pc |-> pc, expired |-> expired, ret |-> ret]

NoCall == LibCall("none", Str(0), "idle", FALSE, Unit)

\* InMemoryDB::calculate_expiration
CalculateExpiration(ttl_seconds, t) ==
    LET ttl == IF ttl_seconds # None THEN ttl_seconds ELSE default_ttl
    IN  IF ttl = None THEN None ELSE Some(t + ttl[1])

\* InMemoryDB::create_collection: a new, empty Collection under the name.
CreateCollection ==
    /\ call.pc = "idle"
    /\ collections' = MapInsert(collections, LibName, <<>>)
    /\ call' = LibCall("create_collection", Str(0), "returned", FALSE, Unit)
    /\ UNCHANGED <<default_ttl, guards, now>>
    /\ UNCHANGED <<dbvars, sidevars>>

\* InMemoryDB::set, and the Collection::insert of lib.rs it calls.
Set(doc_id, document, ttl_seconds) ==
    LET entry == DocumentEntry(document, CalculateExpiration(ttl_seconds, now))
        docs == IF LibName \in DOMAIN collections THEN collections[LibName]
                ELSE <<>>
    IN
    /\ call.pc = "idle"
    /\ collections' = MapInsert(collections, LibName, MapInsert(docs, doc_id, entry))
    /\ call' = LibCall("set", doc_id, "returned", FALSE, Unit)
    /\ UNCHANGED <<default_ttl, guards, now>>
    /\ UNCHANGED <<dbvars, sidevars>>

\* Collection::get_all_documents, the map yielding its keys in some order.
GetAllDocuments(docs, order) == [i \in 1..Len(order) |-> docs[order[i]].value]

\* SystemTime::now() > expiration
Expired(entry, t) == entry.expiration # None /\ t > entry.expiration[1]

\* InMemoryDB::get and Collection::get of lib.rs, up to the return or to
\* the call of documents.remove: documents.get(doc_id) gives the Ref
\* `entry`, which lives until get returns.
Lookup(doc_id) ==
    /\ call.pc = "idle"
    /\ UNCHANGED <<collections, default_ttl, now>>
    /\ UNCHANGED <<dbvars, sidevars>>
    /\ IF LibName \notin DOMAIN collections
       THEN /\ call' = LibCall("get", doc_id, "returned", FALSE, Absent)
            /\ guards' = {}
       ELSE LET docs == collections[LibName] IN
            IF doc_id = Star
            THEN /\ \E order \in IterOrders(docs) :
                      call' = LibCall("get", doc_id, "returned", FALSE,
                                      Present(GetAllDocuments(docs, order)))
                 /\ guards' = {}
            ELSE IF doc_id \notin DOMAIN docs
            THEN /\ call' = LibCall("get", doc_id, "returned", FALSE, Absent)
                 /\ guards' = {}
            ELSE IF Expired(docs[doc_id], now)
            THEN /\ call' = LibCall("get", doc_id, "remove", TRUE, Pending)
                 /\ guards' = {doc_id}
            ELSE /\ call' = LibCall("get", doc_id, "returned", FALSE,
                                    Present(docs[doc_id].value))
                 /\ guards' = {}

\* self.documents.remove(doc_id) inside Collection::get: DashMap::remove
\* takes the write lock of the key's shard, which it gets once no guard on
\* that shard is held; then get returns None and drops `entry`.
RemoveExpired ==
    /\ call.pc \in {"remove", "waiting"}
    /\ UNCHANGED <<default_ttl, now>>
    /\ UNCHANGED <<dbvars, sidevars>>
    /\ IF call.id \notin guards
       THEN /\ collections' = MapInsert(collections, LibName,
                                        MapRemove(collections[LibName], call.id))
            /\ call' = [call EXCEPT !.pc = "returned", !.ret = Absent]
            /\ guards' = {}
       ELSE /\ call' = [call EXCEPT !.pc = "waiting"]
            /\ UNCHANGED <<collections, guards>>

\* The caller takes what the call returned.
LibReturn ==
    /\ call.pc = "returned"
    /\ call' = NoCall
    /\ UNCHANGED <<collections, default_ttl, guards, now>>
    /\ UNCHANGED <<dbvars, sidevars>>

\* -------------------------------------------------------------- JoinBuilder
\* JoinBuilder: the join fields, the post-join filters and the selection;
\* JoinBuilder::new leaves map_function at None.
JoinBuilder(src_key, target_key, filters, selected_fields) ==
    [src_key |-> src_key, target_key |-> target_key, filters |-> filters,
     selected_fields |-> selected_fields, map_function |-> None]

\* JoinBuilder::map stores the transform.
JoinMap(jb, map_fn) == [jb EXCEPT !.map_function = Some(map_fn)]

\* The transforms a caller registers: "zero" sets joined_age to the number
\* 0, "drop" returns the row without its joined_age.
MapFunctions == {"zero", "drop"}
MapFn(map_fn, joined_doc) ==
    IF map_fn = "zero" THEN SetField(joined_doc, "joined_age", Num(0))
    ELSE [f \in DOMAIN joined_doc \ {"joined_age"} |-> joined_doc[f]]

\* No join is returning.
NoJoin == JoinBuilder("", "", <<>>, <<>>)

\* Value::Null
Null == [t |-> "null", v |-> 0]

\* The text of a string inside quotation marks: not the text of a number,
\* and none of the texts a document holds.
Quoted(val) == Str(0 - (100 + val.v))

\* Value::to_string: the JSON text of a value, a number as its digits, a
\* string inside quotation marks.
JsonText(val) ==
    CASE val.t = "num" -> Str(val.v)
      [] val.t = "str" -> Quoted(val)
      [] val.t = "null" -> Str(0 - 2)

\* format!("joined_{}", key)
JoinedKey(key) == "joined_" \o key

\* JoinBuilder::select: "*" selects nothing (every field); any other text
\* is split at the commas and each part trimmed.
JoinSelect(fields) ==
    IF fields = <<"*">> THEN <<>>
    ELSE LET parts == Split(fields)
         IN  [i \in 1..Len(parts) |-> Name(Trim(parts[i]))]

\* target_collection.select("*").eq(target_key, src_value.to_string())
\*     .execute().unwrap()
JoinLookup(tdocs, torder, target_key, src_value) ==
    ExecuteResult(tdocs, torder,
                  QueryBuilder(<<>>, <<Filter("eq", target_key, JsonText(src_value))>>))

\* "If no match found, set joined fields to null": one joined_ key per
\* selected field.
JoinMiss(joined_doc, selected_fields) ==
    LET sel == {JoinedKey(selected_fields[i]) : i \in 1..Len(selected_fields)}
    IN  [f \in DOMAIN joined_doc \cup sel |->
            IF f \in sel THEN Null ELSE joined_doc[f]]

\* The fields of the first target document found, copied under joined_
\* keys: all of them, or the selected ones.
JoinHit(joined_doc, target_doc, selected_fields) ==
    LET sel == {selected_fields[i] : i \in 1..Len(selected_fields)}
        keys == {k \in DOMAIN target_doc : selected_fields = <<>> \/ k \in sel}
        jk == {JoinedKey(k) : k \in keys}
    IN  [f \in DOMAIN joined_doc \cup jk |->
            IF f \in jk THEN target_doc[CHOOSE k \in keys : JoinedKey(k) = f]
            ELSE joined_doc[f]]

\* The body of the loop of JoinBuilder::execute, up to the filters: the row
\* built for one source document.
JoinRow(src_doc, tdocs, torder, jb) ==
    IF Get(src_doc, jb.src_key) = None THEN src_doc
    ELSE LET target_docs == JoinLookup(tdocs, torder, jb.target_key,
                                       Get(src_doc, jb.src_key)[1])
         IN  IF target_docs # <<>>
             THEN JoinHit(src_doc, target_docs[1], jb.selected_fields)
             ELSE JoinMiss(src_doc, jb.selected_fields)

\* Mutant: the transform runs on every joined row, the filters on its output.
JoinExecuteRunMapsFirst(sdocs, sorder, tdocs, torder, jb) ==
    LET src_docs == ExecuteResult(sdocs, sorder, QueryBuilder(<<>>, <<>>))
        rows == [i \in 1..Len(src_docs) |-> JoinRow(src_docs[i], tdocs, torder, jb)]
        mapped == [i \in 1..Len(rows) |->
                      IF jb.map_function = None THEN rows[i]
                      ELSE MapFn(jb.map_function[1], rows[i])]
        Keep(row) == AllMatch(jb.filters, row)
    IN  [results |-> SelectSeq(mapped, Keep),
         transformed |-> IF jb.map_function = None THEN <<>> ELSE rows]

\* JoinBuilder::execute, the two maps yielding their keys in the given
\* orders: the rows it returns and the rows it called map_function on.
JoinExecuteRun(sdocs, sorder, tdocs, torder, jb) ==
    LET src_docs == ExecuteResult(sdocs, sorder, QueryBuilder(<<>>, <<>>))
        rows == [i \in 1..Len(src_docs) |-> JoinRow(src_docs[i], tdocs, torder, jb)]
        Keep(row) == AllMatch(jb.filters, row)
        kept == SelectSeq(rows, Keep)
    IN  IF jb.map_function = None
        THEN [results |-> kept, transformed |-> <<>>]
        ELSE [results |-> [i \in 1..Len(kept) |-> MapFn(jb.map_function[1], kept[i])],
              transformed |-> kept]

\* The rows JoinBuilder::execute returns.
JoinExecuteResult(sdocs, sorder, tdocs, torder, jb) ==
    JoinExecuteRun(sdocs, sorder, tdocs, torder, jb).results

\* ------------------------------------------------------------------ time
Tick ==
    /\ last = Idle
    /\ now < 2 * MaxTime
    /\ now' = now + 2
    /\ UNCHANGED <<key_field, key_type, unique_keys, documents, next_id, last,
                   returned, query, results, callbacks, notified, target, target_next_id, join,
                   transformed>>
    /\ UNCHANGED <<libvars, sidevars>>

\* The caller takes the returned value; the collection is as the call left it.
Return ==
    /\ last # Idle
    /\ last' = Idle
    /\ query' = NoQuery
    /\ results' = None
    /\ callbacks' = {}
    /\ notified' = <<>>
    /\ transformed' = <<>>
    /\ join' = NoJoin
    /\ UNCHANGED <<key_field, key_type, unique_keys, documents, next_id, now,
                   returned, target, target_next_id>>
    /\ UNCHANGED <<libvars, sidevars>>

\* --------------------------------------------------------- specification
\* Collection::new, for the configurations CollectionBuilder can build: with
\* or without a key field, every key type, no unique key or the data field
\* unique; the key field itself unique under Increment, where insert writes
\* the identity into the document before it checks uniqueness.
\* InMemoryDB::new of db.rs: the database keeps the TTL it is given.
DbInMemoryDBNew(ttl) == db_ttl = ttl

\* The caller threads that share one collection.
Threads == {1, 2}

\* A thread that has no insert in flight and has run n inserts so far; at is
\* the value the counter had when the thread issued its last call.
ThreadIdle(n) ==
    [pc |-> "idle", document |-> NoDoc, res |-> Err("none"), n |-> n, at |-> 0]

\* No thread has called yet.
NoThreads == threads = [t \in Threads |-> ThreadIdle(0)]

\* CollectionConfig::new.
CollectionConfigNew ==
    [key_field |-> None, key_type |-> None, unique_keys |-> <<>>,
     not_null_fields |-> <<>>, nullable_fields |-> <<>>,
     field_types |-> <<>>, ttl |-> None]

\* No configuration has been filled in, validate has not been called.
NoValidation == config = CollectionConfigNew /\ validation = None

\* InMemoryDB::new of lib.rs: no collection, no call made yet.
InMemoryDBNew(ttl) ==
    /\ collections = <<>>
    /\ default_ttl = ttl
    /\ call = NoCall
    /\ guards = {}

\* Collection::clone, as CollectionBuilder::build stores it: DashMap::clone
\* copies the entries, next_id is copied by value.
CollectionClone(docs, nid) == [documents |-> docs, next_id |-> nid]

\* Collection::new of db.rs, as CollectionBuilder::build calls it: no
\* document, the counter at 0; the clock at 0, no call made yet.
CollectionNew(field, type, ukeys) ==
    /\ key_field = field
    /\ key_type = type
    /\ unique_keys = ukeys
    /\ documents = <<>>
    /\ next_id = 0
    /\ now = 0
    /\ last = Idle
    /\ returned = {}
    /\ query = NoQuery
    /\ results = None
    /\ callbacks = {}
    /\ notified = <<>>
    /\ transformed = <<>>
    /\ target = <<>>
    /\ target_next_id = 0
    /\ registered = CollectionClone(documents, next_id)
    /\ join = NoJoin

Init ==
    /\ \E field \in {None, Some("id")}, type \in KeyTypes,
          ukeys \in {{}, {"age"}, {"id"}} :
            /\ "id" \in ukeys => type = "Increment" /\ field # None
            /\ CollectionNew(field, type, ukeys)
    /\ InMemoryDBNew(None)
    /\ DbInMemoryDBNew(NoTTL)
    /\ NoThreads
    /\ NoValidation

\* The documents a caller passes to this collection: under UUID the keys it
\* knows are the generated texts and "1", otherwise "1" .. "MaxId"; a key
\* that is not a string, or no key at all, under every strategy.
Inputs ==
    {d \in Documents :
        "id" \in DOMAIN d =>
            \/ d["id"] = Num(1)
            \/ key_type = "UUID" /\ d["id"] \in UuidPool \cup {Str(1)}
            \/ key_type # "UUID" /\ d["id"] \in {Str(k) : k \in 1..MaxId}}

\* The keys a caller passes to delete: the string keys of its documents.
KeysOf(ds) == {d["id"] : d \in {x \in ds : "id" \in DOMAIN x /\ x["id"].t = "str"}}

InsertCall ==
    /\ last = Idle
    /\ \E document \in Inputs, ttl \in TtlArgs : Insert(document, ttl)

UpsertCall ==
    /\ last = Idle
    /\ \E document \in Inputs, ttl \in TtlArgs : Upsert(document, ttl)

UpdateCall ==
    /\ last = Idle
    /\ \E document \in Inputs : Update(document)

DeleteCall ==
    /\ last = Idle
    /\ \E key \in KeysOf(Inputs) : Delete(key)

Next ==
    \/ InsertCall
    \/ UpsertCall
    \/ UpdateCall
    \/ DeleteCall
    \/ Tick
    \/ Return

Spec == Init /\ [][Next]_vars

\* A collection keyed by a string field, built by a database made with or
\* without a default TTL.
InitTtl ==
    /\ CollectionNew(Some("id"), "String", {})
    /\ InMemoryDBNew(None)
    /\ \E ttl \in {NoTTL, GlobalTTL(1)} : DbInMemoryDBNew(ttl)
    /\ NoThreads
    /\ NoValidation

SpecTtl == InitTtl /\ [][Next]_vars

\* ------------------------------------------ inserts from several threads
\* Thread t issues insert(document, None) on the shared collection: insert
\* takes &mut self, so the call waits until the thread holds the collection
\* alone.
ThreadCall(t, document) ==
    /\ threads[t].pc = "idle"
    /\ next_id + Cardinality({u \in Threads : threads[u].pc = "called"}) < MaxId
    /\ threads' = [threads EXCEPT ![t] =
            [pc |-> "called", document |-> document, res |-> Err("none"),
             n |-> threads[t].n, at |-> next_id]]
    /\ UNCHANGED <<key_field, key_type, unique_keys, documents, next_id, now,
                   last, returned, query, results, callbacks, notified, target, target_next_id,
                   join, transformed>>
    /\ UNCHANGED <<libvars, db_ttl, registered, config, validation>>

\* Thread t holds the collection alone and runs the whole of its insert.
ThreadInsert(t) ==
    /\ threads[t].pc = "called"
    /\ \E uuid \in FreshUuids :
        LET out == InsertOutcome(documents, next_id, threads[t].document, None, uuid)
        IN  /\ documents' = out.documents
            /\ next_id' = out.next_id
            /\ returned' = IF out.res.kind = "Inserted"
                           THEN returned \cup {out.res.id} ELSE returned
            /\ threads' = [threads EXCEPT ![t] =
                    [pc |-> "done", document |-> threads[t].document,
                     res |-> out.res, n |-> threads[t].n + 1,
                     at |-> threads[t].at]]
    /\ UNCHANGED <<key_field, key_type, unique_keys, now, last, query, results,
                   callbacks, notified, target, target_next_id, join, transformed>>
    /\ UNCHANGED <<libvars, db_ttl, registered, config, validation>>

\* Thread t takes the value its insert returned.
ThreadReturn(t) ==
    /\ threads[t].pc = "done"
    /\ threads' = [threads EXCEPT ![t] = ThreadIdle(threads[t].n)]
    /\ UNCHANGED <<key_field, key_type, unique_keys, documents, next_id, now,
                   last, returned, query, results, callbacks, notified, target, target_next_id,
                   join, transformed>>
    /\ UNCHANGED <<libvars, db_ttl, registered, config, validation>>

ThreadCallAny == \E t \in Threads, document \in Inputs : ThreadCall(t, document)
ThreadInsertAny == \E t \in Threads : ThreadInsert(t)
ThreadReturnAny == \E t \in Threads : ThreadReturn(t)

\* An Increment collection shared by the threads, with or without a unique
\* data field.
InitConc ==
    /\ \E ukeys \in {{}, {"age"}} : CollectionNew(Some("id"), "Increment", ukeys)
    /\ InMemoryDBNew(None)
    /\ DbInMemoryDBNew(NoTTL)
    /\ NoThreads
    /\ NoValidation

NextConc ==
    \/ ThreadCallAny
    \/ ThreadInsertAny
    \/ ThreadReturnAny

SpecConc == InitConc /\ [][NextConc]_vars

\* ------------------------------------------------------- CollectionConfig
\* The field lists a caller passes to not_null and nullable, and the key
\* fields it passes to key.
ConfigFieldLists == {<<>>, <<"id">>, <<"age">>, <<"id", "age">>, <<"age", "id">>}

\* The (name, type) lists a caller passes to field_types.
ConfigFieldTypes ==
    {<<>>, <<<<"id", "string">>>>, <<<<"age", "number">>>>,
     <<<<"id", "string">>, <<"age", "number">>>>}

\* Vec::contains.
Contains(list, x) == \E i \in 1..Len(list) : list[i] = x

\* Mutant: the loop over not_null_fields is left out.
ValidateWithoutOverlap(c) ==
    IF c.key_type = Some("Custom") /\ c.key_field = None
        THEN Err("Key field must be set when using Custom key type")
    ELSE IF /\ c.key_field # None
            /\ ~\E i \in 1..Len(c.field_types) : c.field_types[i][1] = c.key_field[1]
        THEN Err("Key field must be defined in field_types")
    ELSE Ok

\* CollectionConfig::validate: the first check that fails gives the error;
\* the loop returns at the first not-null field that is also nullable.
Validate(c) ==
    IF c.key_type = Some("Custom") /\ c.key_field = None
        THEN Err("Key field must be set when using Custom key type")
    ELSE IF /\ c.key_field # None
            /\ ~\E i \in 1..Len(c.field_types) : c.field_types[i][1] = c.key_field[1]
        THEN Err("Key field must be defined in field_types")
    ELSE LET both == {i \in 1..Len(c.not_null_fields) :
                         Contains(c.nullable_fields, c.not_null_fields[i])}
         IN  IF both # {}
             THEN LET first == CHOOSE i \in both : \A j \in both : i <= j
                  IN  Err("Field '" \o c.not_null_fields[first]
                          \o "' cannot be both not-null and nullable")
             ELSE Ok

\* The builder methods key, key_type, not_null, nullable and field_types:
\* each replaces one field of the configuration.
ConfigKey(field) ==
    /\ validation = None
    /\ config' = [config EXCEPT !.key_field = Some(field)]
    /\ UNCHANGED <<validation, db_ttl, registered, threads, dbvars, libvars, now>>

ConfigKeyType(type) ==
    /\ validation = None
    /\ config' = [config EXCEPT !.key_type = Some(type)]
    /\ UNCHANGED <<validation, db_ttl, registered, threads, dbvars, libvars, now>>

ConfigNotNull(fields) ==
    /\ validation = None
    /\ config' = [config EXCEPT !.not_null_fields = fields]
    /\ UNCHANGED <<validation, db_ttl, registered, threads, dbvars, libvars, now>>

ConfigNullable(fields) ==
    /\ validation = None
    /\ config' = [config EXCEPT !.nullable_fields = fields]
    /\ UNCHANGED <<validation, db_ttl, registered, threads, dbvars, libvars, now>>

ConfigFieldTypesSet(types) ==
    /\ validation = None
    /\ config' = [config EXCEPT !.field_types = types]
    /\ UNCHANGED <<validation, db_ttl, registered, threads, dbvars, libvars, now>>

\* config.validate(): it takes &self and returns the result.
ValidateCall ==
    /\ validation = None
    /\ validation' = Some(Validate(config))
    /\ config' = config
    /\ UNCHANGED <<db_ttl, registered, threads, dbvars, libvars, now>>

\* The caller takes the result.
ValidateReturn ==
    /\ validation # None
    /\ validation' = None
    /\ UNCHANGED <<config, db_ttl, registered, threads, dbvars, libvars, now>>

ConfigKeyCall == \E field \in {"id", "age"} : ConfigKey(field)
ConfigKeyTypeCall == \E type \in KeyTypes : ConfigKeyType(type)
ConfigNotNullCall == \E fields \in ConfigFieldLists : ConfigNotNull(fields)
ConfigNullableCall == \E fields \in ConfigFieldLists : ConfigNullable(fields)
ConfigFieldTypesCall == \E types \in ConfigFieldTypes : ConfigFieldTypesSet(types)

\* CollectionConfig::new(); no collection is used.
InitConfig ==
    /\ CollectionNew(None, "UUID", {})
    /\ InMemoryDBNew(None)
    /\ DbInMemoryDBNew(NoTTL)
    /\ NoThreads
    /\ NoValidation

NextConfig ==
    \/ ConfigKeyCall
    \/ ConfigKeyTypeCall
    \/ ConfigNotNullCall
    \/ ConfigNullableCall
    \/ ConfigFieldTypesCall
    \/ ValidateCall
    \/ ValidateReturn

SpecConfig == InitConfig /\ [][NextConfig]_vars

\* ------------------------------------------- the collection in the database
\* Mutant: the insert through the database reaches the returned collection.
RegisteredInsertShared(document, ttl) ==
    /\ key_type = "Increment" /\ key_field # None => next_id < MaxId
    /\ \E uuid \in FreshUuids :
        LET out == InsertOutcome(documents, next_id, document, ttl, uuid) IN
        /\ documents' = out.documents
        /\ next_id' = out.next_id
        /\ last' = Call("registered.insert", document, ttl, Str(0), out.res)
    /\ UNCHANGED <<key_field, key_type, unique_keys, now, returned, query,
                   results, callbacks, notified, target, target_next_id, join,
                   transformed>>
    /\ UNCHANGED <<libvars, db_ttl, registered, threads, config, validation>>

\* insert on the collection stored in the database under the name, reached
\* through db.collections.get_mut(name).
RegisteredInsert(document, ttl) ==
    /\ key_type = "Increment" /\ key_field # None => registered.next_id < MaxId
    /\ \E uuid \in FreshUuids :
        LET out == InsertOutcome(registered.documents, registered.next_id,
                                 document, ttl, uuid) IN
        /\ registered' = CollectionClone(out.documents, out.next_id)
        /\ last' = Call("registered.insert", document, ttl, Str(0), out.res)
    /\ UNCHANGED <<key_field, key_type, unique_keys, documents, next_id, now,
                   returned, query, results, callbacks, notified, target,
                   target_next_id, join, transformed>>
    /\ UNCHANGED <<libvars, db_ttl, threads, config, validation>>

\* delete on the collection stored in the database.
RegisteredDelete(key) ==
    LET out == DeleteOutcome(registered.documents, registered.next_id, key) IN
    /\ registered' = CollectionClone(out.documents, out.next_id)
    /\ last' = Call("registered.delete", NoDoc, None, key, out.res)
    /\ UNCHANGED <<key_field, key_type, unique_keys, documents, next_id, now,
                   returned, query, results, callbacks, notified, target,
                   target_next_id, join, transformed>>
    /\ UNCHANGED <<libvars, db_ttl, threads, config, validation>>

RegisteredInsertCall ==
    /\ last = Idle
    /\ \E document \in Inputs : RegisteredInsert(document, None)

RegisteredDeleteCall ==
    /\ last = Idle
    /\ \E key \in KeysOf(Inputs) : RegisteredDelete(key)

\* db.create().name(..).key("id").key_type(..).build(): the collection
\* returned and its clone in the database, both empty.
InitBuild ==
    /\ \E type \in {"String", "Increment"} : CollectionNew(Some("id"), type, {})
    /\ InMemoryDBNew(None)
    /\ DbInMemoryDBNew(NoTTL)
    /\ NoThreads
    /\ NoValidation

NextBuild ==
    \/ InsertCall
    \/ UpdateCall
    \/ DeleteCall
    \/ RegisteredInsertCall
    \/ RegisteredDeleteCall
    \/ Return

SpecBuild == InitBuild /\ [][NextBuild]_vars

\* ------------------------------------------------- queries on a collection
\* The predicates a caller registers, and the lists it registers them in.
FilterInputs ==
    {Filter("gte", "age", 1), Filter("gte", "age", 2), Filter("eq", "age", Str(1))}
FilterLists ==
    {<<>>} \cup {<<f>> : f \in FilterInputs}
           \cup {<<f, g>> : f \in FilterInputs, g \in FilterInputs}

\* The texts a caller passes to select.
SelectTexts ==
    {<<"*">>, <<>>, <<" ">>, <<"age">>, <<"age", ",", " ", "id">>,
     <<"age", ",">>}

\* The selections Collection::select builds: "*" gives the empty list.
Selections == {Select(fields) : fields \in SelectTexts}

\* collection.select(..)...execute()
Execute(selected_fields, filters) ==
    \E order \in IterOrders(documents), cbs \in CallbackSets :
        LET q == QueryBuilder(selected_fields, filters)
            out == ExecuteReturn(documents, order, q, cbs)
        IN
        /\ query' = q
        /\ callbacks' = cbs
        /\ results' = IF out.res.kind = "Ok" THEN Some(out.value) ELSE None
        /\ notified' = out.notified
        /\ transformed' = transformed
        /\ last' = Call("execute", NoDoc, None, Str(0), out.res)
        /\ UNCHANGED <<key_field, key_type, unique_keys, documents, next_id,
                       now, returned, target, target_next_id, join>>
        /\ UNCHANGED <<libvars, sidevars>>

ExecuteCall ==
    /\ last = Idle
    /\ \E selected_fields \in Selections, filters \in FilterLists :
          Execute(selected_fields, filters)

\* collection.select(..).gte(..).map(mapper).execute()
ExecuteMapCall ==
    /\ last = Idle
    /\ \E selected_fields \in Selections, mapper \in Mappers,
          filters \in {<<>>, <<Filter("gte", "age", 1)>>} :
            Execute(selected_fields, filters \o <<MapFilter(mapper)>>)

\* A collection keyed by a string field, as in examples/condition_query.rs.
InitQuery ==
    /\ CollectionNew(Some("id"), "String", {})
    /\ InMemoryDBNew(None)
    /\ DbInMemoryDBNew(NoTTL)
    /\ NoThreads
    /\ NoValidation

NextQuery == Next \/ ExecuteCall

SpecQuery == InitQuery /\ [][NextQuery]_vars

\* Inserts and queries with a mapper.
NextMap ==
    \/ InsertCall
    \/ ExecuteMapCall
    \/ Return

SpecMap == InitQuery /\ [][NextMap]_vars

\* A collection keyed by the counter: its identities are "1", "2", .. in
\* the order of the inserts.
InitOrder ==
    /\ CollectionNew(Some("id"), "Increment", {})
    /\ InMemoryDBNew(None)
    /\ DbInMemoryDBNew(NoTTL)
    /\ NoThreads
    /\ NoValidation

SpecOrder == InitOrder /\ [][NextQuery]_vars

\* ------------------------------------------------------------ eq and neq
\* Documents whose data field is missing, a number, a text, a text that is
\* no number, or null; the texts eq and neq are given: "1", "2" and a text
\* that does not parse as a number.
PredDocs ==
    {d \in UNION {[D -> {Str(1), Str(2), Num(1), Str(0 - 1), Null}] :
                      D \in {{"id"}, {"id", "age"}}} :
        d["id"] \in {Str(1), Str(2)}}
PredValues == {Str(1), Str(2), Str(0 - 1)}

PredInsertCall ==
    /\ last = Idle
    /\ \E document \in PredDocs : Insert(document, None)

\* collection.select("*").eq(key, value).execute(), and the same with neq
ExecutePredCall ==
    /\ last = Idle
    /\ \E f \in {"eq", "neq"}, key \in Fields, value \in PredValues :
          Execute(<<>>, <<Filter(f, key, value)>>)

NextPred ==
    \/ PredInsertCall
    \/ ExecutePredCall
    \/ Return

SpecPred == InitQuery /\ [][NextPred]_vars

\* ------------------------------------------------------------------ joins
\* A candidate document with the keys of a joined document written over it.
Combine(existing_doc, joined_doc) ==
    [f \in DOMAIN existing_doc \cup DOMAIN joined_doc |->
        IF f \in DOMAIN joined_doc THEN joined_doc[f] ELSE existing_doc[f]]

RECURSIVE Flatten(_)
Flatten(seqs) == IF seqs = <<>> THEN <<>> ELSE Head(seqs) \o Flatten(Tail(seqs))

\* The flat_map of execute for one registered join: the candidate itself if
\* the join gave nothing, otherwise one combined document per joined
\* document.
Expand(doc_value, new_joined_docs) ==
    IF new_joined_docs = <<>> THEN <<doc_value>>
    ELSE [k \in 1..Len(new_joined_docs) |-> Combine(doc_value, new_joined_docs[k])]

\* QueryBuilder::execute with one join registered by join(src_key,
\* target_key, target_collection, join_builder): for every document that
\* passes the filters the join function runs the whole JoinBuilder::execute
\* over the source collection.
ExecuteJoinResult(docs, order, q, tdocs, torder, jb) ==
    LET Keep(id) == AllMatch(q.filters, docs[id].value)
        kept == SelectSeq(order, Keep)
        new_joined_docs == JoinExecuteResult(docs, order, tdocs, torder, jb)
        Rows(id) ==
            LET joined_docs == Expand(docs[id].value, new_joined_docs)
            IN  [k \in 1..Len(joined_docs) |->
                    Project(q.selected_fields, joined_docs[k])]
    IN  Flatten([i \in 1..Len(kept) |-> Rows(kept[i])])

\* The join fields, post-join filters and selections a caller gives a
\* JoinBuilder.
JoinFilterLists == {<<>>, <<Filter("gte", "joined_age", 1)>>}
JoinSelectTexts == {<<"*">>, <<"age">>}
JoinBuilders ==
    {JoinBuilder("age", "age", filters, JoinSelect(fields)) :
        filters \in JoinFilterLists, fields \in JoinSelectTexts}

\* The same with a transform registered by map.
MappedJoinBuilders ==
    {JoinMap(jb, map_fn) : jb \in JoinBuilders, map_fn \in MapFunctions}

\* The filters of a query that has a join registered.
JoinQueryFilters == {<<>>, <<Filter("gte", "age", 1)>>}

\* insert on the target collection, keyed like the source collection.
TargetInsert(document) ==
    LET out == InsertOutcome(target, target_next_id, document, None, Str(0)) IN
    /\ key_type = "Increment" /\ key_field # None => target_next_id < MaxId
    /\ target' = out.documents
    /\ target_next_id' = out.next_id
    /\ last' = Call("target.insert", document, None, Str(0), out.res)
    /\ UNCHANGED <<key_field, key_type, unique_keys, documents, next_id, now,
                   returned, query, results, callbacks, notified, join,
                   transformed>>
    /\ UNCHANGED <<libvars, sidevars>>

TargetInsertCall ==
    /\ last = Idle
    /\ \E document \in Inputs : TargetInsert(document)

\* Mutant: the join takes the documents it reads out of the source map.
JoinExecuteDraining(jb) ==
    \E sorder \in IterOrders(documents), torder \in IterOrders(target) :
        LET run == JoinExecuteRun(documents, sorder, target, torder, jb) IN
        /\ join' = jb
        /\ results' = Some(run.results)
        /\ transformed' = run.transformed
        /\ last' = Call("join.execute", NoDoc, None, Str(0), Ok)
        /\ documents' = <<>>
        /\ UNCHANGED <<key_field, key_type, unique_keys, next_id,
                       now, returned, query, callbacks, notified, target,
                       target_next_id>>
        /\ UNCHANGED <<libvars, sidevars>>

\* JoinBuilder::new(source, target).select(..).on(..).filter(..).execute()
JoinExecute(jb) ==
    \E sorder \in IterOrders(documents), torder \in IterOrders(target) :
        LET run == JoinExecuteRun(documents, sorder, target, torder, jb) IN
        /\ join' = jb
        /\ results' = Some(run.results)
        /\ transformed' = run.transformed
        /\ last' = Call("join.execute", NoDoc, None, Str(0), Ok)
        /\ UNCHANGED <<key_field, key_type, unique_keys, documents, next_id,
                       now, returned, query, callbacks, notified, target, target_next_id>>
        /\ UNCHANGED <<libvars, sidevars>>

JoinExecuteCall ==
    /\ last = Idle
    /\ \E jb \in JoinBuilders \cup MappedJoinBuilders : JoinExecute(jb)

\* source.select("*").filter(..).join(src_key, target_key, &target,
\*     join_builder).execute(), with a join_builder that registers no
\* transform.
ExecuteJoin(filters, jb) ==
    \E order \in IterOrders(documents), torder \in IterOrders(target) :
        LET q == QueryBuilder(<<>>, filters) IN
        /\ query' = q
        /\ join' = jb
        /\ results' = Some(ExecuteJoinResult(documents, order, q, target, torder, jb))
        /\ last' = Call("execute.join", NoDoc, None, Str(0), Ok)
        /\ UNCHANGED <<key_field, key_type, unique_keys, documents, next_id,
                       now, returned, callbacks, notified, target, target_next_id,
                       transformed>>
        /\ UNCHANGED <<libvars, sidevars>>

ExecuteJoinCall ==
    /\ last = Idle
    /\ \E filters \in JoinQueryFilters, jb \in JoinBuilders :
          ExecuteJoin(filters, jb)

\* A source and a target collection keyed by a string field, as in
\* examples/join.rs.
InitJoin ==
    /\ CollectionNew(Some("id"), "String", {})
    /\ InMemoryDBNew(None)
    /\ DbInMemoryDBNew(NoTTL)
    /\ NoThreads
    /\ NoValidation

NextJoin ==
    \/ InsertCall
    \/ TargetInsertCall
    \/ JoinExecuteCall
    \/ ExecuteJoinCall
    \/ Return

SpecJoin == InitJoin /\ [][NextJoin]_vars

\* Queries and joins over collections that generate their identities: the
\* source and the target collection each have their own counter.
InitRead ==
    /\ CollectionNew(Some("id"), "Increment", {})
    /\ InMemoryDBNew(None)
    /\ DbInMemoryDBNew(NoTTL)
    /\ NoThreads
    /\ NoValidation

NextRead ==
    \/ InsertCall
    \/ TargetInsertCall
    \/ ExecuteCall
    \/ JoinExecuteCall
    \/ ExecuteJoinCall
    \/ Return

SpecRead == InitRead /\ [][NextRead]_vars

\* ------------------------------------------------------- the lib.rs store
SetCall ==
    \E doc_id \in LibIds, document \in LibDocs, ttl_seconds \in LibTtls :
        Set(doc_id, document, ttl_seconds)

LookupCall == \E doc_id \in LibIds \cup {Star} : Lookup(doc_id)

NextLib ==
    \/ CreateCollection
    \/ SetCall
    \/ LookupCall
    \/ RemoveExpired
    \/ LibReturn
    \/ Tick

\* InMemoryDB::new of lib.rs; the db.rs collection is not used.
InitLib ==
    /\ CollectionNew(None, "UUID", {})
    /\ \E ttl \in {None, Some(1)} : InMemoryDBNew(ttl)
    /\ DbInMemoryDBNew(NoTTL)
    /\ NoThreads
    /\ NoValidation

SpecLib == InitLib /\ [][NextLib]_vars

\* ------------------------------------------------------------ properties
\* The step in which a call of op returns.
Returns(op) == last = Idle /\ last'.op = op

\* The step in which insert, or upsert through insert, returns Inserted.
ReturnsInserted ==
    /\ last = Idle
    /\ last'.op \in {"insert", "upsert"}
    /\ last'.res.kind = "Inserted"

\* The integer a decimal text denotes.
IdNum(id) == id.v

\* C1: under the Increment strategy, whatever calls are made (failing
\* inserts and deletes of earlier documents included), each identity a
\* successful insert returns is, as an integer, greater than every identity
\* returned before it, so none is returned twice; and next_id never
\* decreases.
C1_IncrementIdsIncrease ==
    [][key_type = "Increment" =>
          /\ next_id' >= next_id
          /\ ReturnsInserted =>
                \A i \in returned : IdNum(last'.res.id) > IdNum(i)]_vars

\* Two inserts have succeeded, the first document has been deleted, and the
\* second insert did not reuse its identity.
C1_Witness ==
    /\ key_type = "Increment"
    /\ returned = {Str(1), Str(2)}
    /\ DOMAIN documents = {Str(2)}
    /\ last.op = "insert" /\ last.res = Inserted(Str(2), last.res.document)

\* A stored entry is live at time t: it has no expiration or has not passed it.
Live(entry, t) == entry.expiration = None \/ ~(t > entry.expiration[1])

\* C2: in every reachable state, for every unique key, no two resident
\* documents that have not expired hold an equal value for it.
C2_UniqueAmongLive ==
    \A u \in unique_keys : \A a, b \in DOMAIN documents :
        (/\ a # b
         /\ Live(documents[a], now) /\ Live(documents[b], now)
         /\ Get(documents[a].value, u) # None)
        => Get(documents[a].value, u) # Get(documents[b].value, u)


\* The document carries an identity: the collection has a key field and the
\* document holds a string in it.
HasIdentity(d) ==
    /\ key_field # None
    /\ key_field[1] \in DOMAIN d
    /\ d[key_field[1]].t = "str"

IdentityOf(d) == d[key_field[1]]

\* insert gets past key generation: a key field is configured and, under
\* String or Custom, the document carries an identity.
KeyGenerated(d) ==
    /\ key_field # None
    /\ key_type \in {"String", "Custom"} => HasIdentity(d)

\* Some resident document of docs holds, for a unique key, the value val(u),
\* where val(u) is Some(value) or None.
HoldsEqual(docs, val(_)) ==
    \E u \in unique_keys :
        /\ val(u) # None
        /\ \E k \in DOMAIN docs :
              /\ u \in DOMAIN docs[k].value
              /\ Some(docs[k].value[u]) = val(u)

\* C3 as claimed: when the collection holds a document whose value for a
\* unique key equals the value on the incoming document, insert returns
\* DuplicateUniqueValue and leaves the documents map as it was.
C3_DuplicateRejected ==
    [][(/\ Returns("insert")
        /\ LET d == last'.document
               OnDocument(u) == Get(d, u)
           IN  HoldsEqual(documents, OnDocument))
       => /\ last'.res = Err("DuplicateUniqueValue")
          /\ documents' = documents]_vars

\* C3 as amended: the same, for an insert that gets past key generation
\* and for the value the document carries when the check runs, which for
\* the key field under Increment is the generated identity.
C3_DuplicateRejectedAfterKey ==
    [][(/\ Returns("insert")
        /\ KeyGenerated(last'.document)
        /\ LET d == last'.document
               gen == to_string(next_id')
               Checked(u) ==
                   IF key_type = "Increment" /\ key_field = Some(u)
                   THEN Some(gen)
                   ELSE IF key_type = "UUID" /\ key_field = Some(u) THEN None
                   ELSE Get(d, u)
           IN  HoldsEqual(documents, Checked))
       => /\ last'.res = Err("DuplicateUniqueValue")
          /\ documents' = documents]_vars

\* An insert has just been refused because a resident document holds the
\* incoming document's value for the unique key.
C3_Witness ==
    /\ last.op = "insert"
    /\ last.res = Err("DuplicateUniqueValue")
    /\ unique_keys = {"age"}
    /\ \E k \in DOMAIN documents :
          Get(documents[k].value, "age") = Get(last.document, "age")

\* The document conflicts with a resident one on a unique key, taking for
\* the key field under Increment / UUID the identity insert generates.
Conflicts(docs, d, gen) ==
    LET Checked(u) ==
            IF key_type = "Increment" /\ key_field = Some(u) THEN Some(gen)
            ELSE IF key_type = "UUID" /\ key_field = Some(u) THEN None
            ELSE Get(d, u)
    IN  HoldsEqual(docs, Checked)

\* C4 as claimed: upsert of a document whose identity is resident returns
\* Updated with that identity, keeps the entry and the number of entries;
\* upsert of a document whose identity is not resident returns Inserted and
\* adds exactly one entry.
C4_UpsertUpdatesOrInserts ==
    [][(Returns("upsert") /\ HasIdentity(last'.document)) =>
          LET id == IdentityOf(last'.document)
              res == last'.res
          IN  IF id \in DOMAIN documents
              THEN /\ res.kind = "Updated" /\ res.id = id
                   /\ DOMAIN documents' = DOMAIN documents
              ELSE /\ res.kind = "Inserted"
                   /\ Cardinality(DOMAIN documents') =
                          Cardinality(DOMAIN documents) + 1
                   /\ DOMAIN documents \subseteq DOMAIN documents']_vars

\* C4 as amended: on an identity that is not resident, upsert returns
\* Inserted and adds exactly one entry unless the document conflicts with a
\* resident document on a unique key; then it returns DuplicateUniqueValue
\* and adds nothing.
C4_UpsertUpdatesOrInsertsUnlessDuplicate ==
    [][(Returns("upsert") /\ HasIdentity(last'.document)) =>
          LET id == IdentityOf(last'.document)
              res == last'.res
          IN  IF id \in DOMAIN documents
              THEN /\ res.kind = "Updated" /\ res.id = id
                   /\ DOMAIN documents' = DOMAIN documents
              ELSE IF Conflicts(documents, last'.document, to_string(next_id'))
              THEN /\ res = Err("DuplicateUniqueValue")
                   /\ documents' = documents
              ELSE /\ res.kind = "Inserted"
                   /\ Cardinality(DOMAIN documents') =
                          Cardinality(DOMAIN documents) + 1
                   /\ DOMAIN documents \subseteq DOMAIN documents']_vars

\* An upsert of a new identity has just returned Inserted beside a resident
\* document, in a collection with a unique key.
C4_Witness ==
    /\ last.op = "upsert"
    /\ last.res.kind = "Inserted"
    /\ unique_keys = {"age"}
    /\ "age" \in DOMAIN last.document
    /\ Cardinality(DOMAIN documents) = 2

\* C5: update of a document whose identity is resident returns Updated with
\* the stored value as old_document and the given document as new_document,
\* stores the given document as the entry's value, and changes neither the
\* entry's expiration nor any other entry.
C5_UpdateReplacesValueOnly ==
    [][(/\ Returns("update")
        /\ HasIdentity(last'.document)
        /\ IdentityOf(last'.document) \in DOMAIN documents)
       => LET d == last'.document
              id == IdentityOf(d)
          IN  /\ last'.res = Updated(id, documents[id].value, d)
              /\ documents' = [documents EXCEPT ![id].value = d]]_vars

\* An update has just replaced the value of an entry that has an
\* expiration, beside another entry.
C5_Witness ==
    /\ last.op = "update"
    /\ last.res.kind = "Updated"
    /\ last.res.old_document # last.res.document
    /\ documents[last.res.id].expiration # None
    /\ documents[last.res.id].value = last.document
    /\ Cardinality(DOMAIN documents) = 2

\* C6: upsert of a document whose identity is resident, with GlobalTTL(s) or
\* CustomTTL(s), sets the entry's expiration to the time of the call plus s.
C6_UpsertSetsExpiration ==
    [][(/\ Returns("upsert")
        /\ HasIdentity(last'.document)
        /\ IdentityOf(last'.document) \in DOMAIN documents
        /\ last'.ttl # None
        /\ last'.ttl[1].k \in {"GlobalTTL", "CustomTTL"})
       => documents'[IdentityOf(last'.document)].expiration
             = Some(now + last'.ttl[1].s)]_vars

\* An upsert with a TTL has just updated an entry after the clock moved.
C6_Witness ==
    /\ last.op = "upsert"
    /\ last.res.kind = "Updated"
    /\ last.ttl = Some(CustomTTL(1))
    /\ now = 2
    /\ documents[last.res.id].expiration = Some(3)

\* C7: the expiration of an entry that has one, and that stays resident
\* under its identity, changes only in an upsert that supplies a TTL.
C7_ExpirationOnlyByUpsertWithTtl ==
    [][\A id \in DOMAIN documents :
          (/\ id \in DOMAIN documents'
           /\ documents[id].expiration # None
           /\ documents'[id].expiration # documents[id].expiration)
          => (last'.op = "upsert" /\ last'.ttl # None)]_vars

\* The claim's reading of a predicate: gte(field, v) accepts a document iff
\* the field holds a number that is >= v.
Accepts(filter, doc) ==
    IF filter.f = "gte"
    THEN /\ filter.key \in DOMAIN doc
         /\ doc[filter.key].t = "num"
         /\ doc[filter.key].v >= filter.value
    ELSE Matches(filter, doc)

\* The resident identities whose document every predicate of q accepts.
Accepted(q) ==
    {id \in DOMAIN documents :
        \A i \in 1..Len(q.filters) : Accepts(q.filters[i], documents[id].value)}

\* What execute returns for a document: the document, or, when fields are
\* selected, those of them the document has.
Selected(q, doc, r) ==
    IF q.selected_fields = <<>> THEN r = doc
    ELSE /\ DOMAIN r = {f \in DOMAIN doc :
                            \E i \in 1..Len(q.selected_fields) :
                                q.selected_fields[i] = f}
         /\ \A f \in DOMAIN r : r[f] = doc[f]

\* C10: execute with no join returns one result for each resident document
\* that every registered predicate accepts (gte accepts a document iff its
\* numeric field value is >= v), and no result for any other document.
C10_ExecuteReturnsTheMatches ==
    last.op = "execute" =>
        LET r == results[1]
            ids == Accepted(query)
        IN  \E h \in [1..Len(r) -> ids] :
                /\ \A id \in ids : \E i \in 1..Len(r) : h[i] = id
                /\ \A i, j \in 1..Len(r) : h[i] = h[j] => i = j
                /\ \A i \in 1..Len(r) :
                      Selected(query, documents[h[i]].value, r[i])

\* An execute with two predicates has returned one document and left out
\* another, which the first predicate accepts and the second rejects.
C10_Witness ==
    /\ last.op = "execute"
    /\ query.selected_fields = <<>>
    /\ Len(query.filters) = 2
    /\ Len(results[1]) = 1
    /\ \E id \in DOMAIN documents :
          /\ Accepts(query.filters[1], documents[id].value)
          /\ ~Accepts(query.filters[2], documents[id].value)

\* C8: a lookup of an identity whose entry has an expiration in the past
\* returns absent, and the entry is then no longer in storage.
C8_ExpiredLookupEvicts ==
    (call.op = "get" /\ call.expired /\ call.pc # "remove") =>
        /\ call.pc = "returned"
        /\ call.ret = Absent
        /\ call.id \notin DOMAIN collections[LibName]

\* C9: every call returns; none waits for a lock of the map that the call
\* itself holds.
C9_NoCallWaitsOnItsOwnGuard ==
    ~(call.pc = "waiting" /\ call.id \in guards)

\* C11: execute lists the matching documents in the order in which they
\* were inserted; under the Increment strategy that is the order of their
\* identities.
C11_ExecuteInInsertionOrder ==
    (last.op = "execute" /\ query.selected_fields = <<>>) =>
        LET r == results[1] IN
        \A i, j \in 1..Len(r) : i < j => IdNum(r[i]["id"]) < IdNum(r[j]["id"])

\* The fields a comma-separated list names: f is listed when some stretch
\* of the text between two commas (or the ends) is f with blanks around it.
Listed(text) ==
    {f \in Fields :
        \E a, b \in 1..Len(text) :
            /\ a = 1 \/ text[a - 1] = ","
            /\ b = Len(text) \/ text[b + 1] = ","
            /\ \E k \in a..b :
                  /\ text[k] = f
                  /\ \A m \in a..b : m # k => text[m] = " "}

\* C12: after select("") or select("*") execute returns each matching
\* document whole; after select of a comma-separated field list it returns,
\* for each matching document, exactly the listed fields the document has,
\* with the document's values (a listed field the document lacks is left
\* out).
C12_Projection ==
    last.op = "execute" =>
        \A fields \in SelectTexts :
            Select(fields) = query.selected_fields =>
                \A i \in 1..Len(results[1]) :
                    \E id \in Accepted(query) :
                        LET doc == documents[id].value
                            r == results[1][i]
                        IN  IF fields = <<>> \/ fields = <<"*">> THEN r = doc
                            ELSE IF fields = <<" ">> THEN TRUE
                            ELSE /\ DOMAIN r = Listed(fields) \cap DOMAIN doc
                                 /\ \A f \in DOMAIN r : r[f] = doc[f]

\* An execute after select("age, id") has returned two documents: one with
\* both fields, taken from a document that has both, and one with the
\* identity only, taken from a document without age.
C12_Witness ==
    /\ last.op = "execute"
    /\ query.selected_fields = Select(<<"age", ",", " ", "id">>)
    /\ Len(results[1]) = 2
    /\ \E i, j \in 1..2 :
          /\ DOMAIN results[1][i] = {"age", "id"}
          /\ DOMAIN results[1][j] = {"id"}

\* C16: execute returns Ok with the computed sequence, the empty sequence
\* when no document matches, and the value is one that the same query
\* returns with no observer registered.
C16_ExecuteReturnsOk ==
    last.op = "execute" =>
        /\ last.res.kind = "Ok"
        /\ results # None
        /\ Accepted(query) = {} => results = Some(<<>>)
        /\ \E order \in IterOrders(documents) :
              results[1] = ExecuteReturn(documents, order, query, {}).value

\* An execute with both observers registered has returned Ok of the empty
\* sequence from a collection that holds a document.
C16_Witness ==
    /\ last.op = "execute"
    /\ callbacks = {"on_success", "on_fail"}
    /\ last.res.kind = "Ok"
    /\ results = Some(<<>>)
    /\ DOMAIN documents # {}

\* C17: when a success observer is registered, execute has invoked it with
\* the computed result by the time it returns.
C17_SuccessCallbackInvoked ==
    (last.op = "execute" /\ "on_success" \in callbacks) =>
        \E i \in 1..Len(notified) :
            notified[i] = [callback |-> "on_success", data |-> results[1]]

\* C18: execute leaves every entry in storage, and an entry whose
\* expiration has passed is returned like any other: if the predicates
\* accept its document, the result holds it.
C18_ExecuteSeesExpired ==
    [][(last = Idle /\ last'.op = "execute") =>
          /\ documents' = documents
          /\ \A id \in DOMAIN documents :
                (Expired(documents[id], now) /\ id \in Accepted(query)') =>
                    \E i \in 1..Len(results'[1]) :
                        Selected(query', documents[id].value, results'[1][i])]_vars

\* An execute has returned the document of an entry whose expiration has
\* passed, and the entry is still in storage.
C18_Witness ==
    /\ last.op = "execute"
    /\ query.selected_fields = <<>>
    /\ \E id \in DOMAIN documents :
          /\ Expired(documents[id], now)
          /\ results = Some(<<documents[id].value>>)

\* C19: under the String or Custom strategy an insert of a document without
\* the key field fails with the missing-key-field error, an insert of a
\* document whose key field is not a string fails with the invalid-key-type
\* error, and neither changes the documents or the counter.
C19_InsertKeyErrors ==
    [][(Returns("insert") /\ key_type \in {"String", "Custom"}
                          /\ key_field # None) =>
          LET d == last'.document
              kf == key_field[1]
              fails(e) == /\ last'.res = Err(e)
                          /\ documents' = documents
                          /\ next_id' = next_id
          IN  /\ kf \notin DOMAIN d => fails("MissingKeyField")
              /\ (kf \in DOMAIN d /\ d[kf].t # "str") => fails("InvalidKeyType")]_vars

\* Under the Custom strategy an insert of a document whose key is a number
\* has failed with the invalid-key-type error, a document being resident.
C19_Witness ==
    /\ key_type = "Custom"
    /\ last.op = "insert"
    /\ "id" \in DOMAIN last.document
    /\ last.document["id"].t = "num"
    /\ last.res = Err("InvalidKeyType")
    /\ DOMAIN documents # {}

\* C20: an update of a document whose identity is not resident, and a
\* delete of an identity that is not resident, fail with NotFound and leave
\* the storage as it was: no entry created, every entry with its value and
\* its expiration.
C20_NotFoundChangesNothing ==
    [][/\ (/\ Returns("update")
           /\ HasIdentity(last'.document)
           /\ IdentityOf(last'.document) \notin DOMAIN documents) =>
                (last'.res = Err("NotFound") /\ documents' = documents)
       /\ (Returns("delete") /\ last'.key \notin DOMAIN documents) =>
                (last'.res = Err("NotFound") /\ documents' = documents)]_vars

\* An update of an identity that is not resident has failed with NotFound
\* while another entry, with an expiration, is resident.
C20_Witness ==
    /\ last.op = "update"
    /\ last.res = Err("NotFound")
    /\ \E id \in DOMAIN documents : documents[id].expiration # None

\* The target documents whose target field equals the join value of a
\* source document.
Matching(jb, src_doc) ==
    {tid \in DOMAIN target :
        /\ jb.target_key \in DOMAIN target[tid].value
        /\ target[tid].value[jb.target_key] = src_doc[jb.src_key]}

\* The fields a join copies from a target document: the selected ones, or
\* all of them when nothing is selected.
Copied(jb, target_doc) ==
    {k \in DOMAIN target_doc :
        \/ jb.selected_fields = <<>>
        \/ \E i \in 1..Len(jb.selected_fields) : jb.selected_fields[i] = k}

\* row is src_doc with the fields of target_doc under joined_ keys.
JoinedWith(jb, row, src_doc, target_doc) ==
    /\ DOMAIN row = DOMAIN src_doc
                      \cup {JoinedKey(k) : k \in Copied(jb, target_doc)}
    /\ \A k \in Copied(jb, target_doc) : row[JoinedKey(k)] = target_doc[k]

\* C13: in the result of JoinBuilder::execute, the row of a source document
\* that has a join value, a number or a string, for which the target holds
\* a document with an equal target field, carries the joined_ keys of one
\* such target document.
C13_JoinAttachesOneMatch ==
    last.op = "join.execute" =>
        \A i \in 1..Len(results[1]) :
            LET row == results[1][i]
                src_doc == documents[row["id"]].value
            IN  (join.src_key \in DOMAIN src_doc /\ Matching(join, src_doc) # {}) =>
                    \E tid \in Matching(join, src_doc) :
                        JoinedWith(join, row, src_doc, target[tid].value)

\* src_doc with null under a joined_ key for each selected field.
Unmatched(jb, src_doc) ==
    LET sel == {JoinedKey(jb.selected_fields[i]) : i \in 1..Len(jb.selected_fields)}
    IN  [f \in DOMAIN src_doc \cup sel |-> IF f \in sel THEN Null ELSE src_doc[f]]

\* C14: in the result of JoinBuilder::execute, a source document that has a
\* join value no target document's field equals gives the row that is the
\* source document plus joined_<field> = null for each selected field (no
\* joined_ key without a selection), and the row is there if it passes the
\* post-join filters.
C14_JoinMissGivesNulls ==
    last.op = "join.execute" =>
        \A id \in DOMAIN documents :
            LET src_doc == documents[id].value
                row == Unmatched(join, src_doc)
            IN  (join.src_key \in DOMAIN src_doc /\ Matching(join, src_doc) = {}) =>
                    /\ AllMatch(join.filters, row) =>
                          \E i \in 1..Len(results[1]) : results[1][i] = row
                    /\ \A i \in 1..Len(results[1]) :
                          results[1][i]["id"] = src_doc["id"] => results[1][i] = row

\* C15: a query with a registered join returns at most one row for each
\* source document that passes the filters of the query.
C15_JoinQueryOneRowPerSource ==
    last.op = "execute.join" =>
        Len(results[1]) <= Cardinality(Accepted(query))

\* C21: a delete of a resident identity returns Deleted with that identity
\* and the stored document, removes that entry and no other, and leaves the
\* rest as it was; a delete or an update of the same identity made next
\* fails with NotFound.
C21_DeleteRemovesOne ==
    [][(Returns("delete") /\ last'.key \in DOMAIN documents) =>
          LET key == last'.key IN
          /\ last'.res = Deleted(key, documents[key].value)
          /\ DOMAIN documents' = DOMAIN documents \ {key}
          /\ \A id \in DOMAIN documents' : documents'[id] = documents[id]
          /\ DeleteOutcome(documents', next_id', key).res = Err("NotFound")
          /\ \A d \in Inputs :
                (HasIdentity(d) /\ IdentityOf(d) = key) =>
                    UpdateOutcome(documents', next_id', d).res = Err("NotFound")]_vars

\* A delete has returned Deleted and another entry, with an expiration, is
\* still resident.
C21_Witness ==
    /\ last.op = "delete"
    /\ last.res.kind = "Deleted"
    /\ \E id \in DOMAIN documents : documents[id].expiration # None

\* The expiration a TTL argument asks for at time t: t + s for GlobalTTL(s)
\* and CustomTTL(s), none for NoTTL and for no argument.
Resolved(ttl, t) ==
    IF ttl # None /\ ttl[1].k \in {"GlobalTTL", "CustomTTL"}
    THEN Some(t + ttl[1].s) ELSE None

\* The step in which insert returns for a document whose identity is
\* resident, under the String or Custom strategy.
ReturnsReinsert ==
    /\ Returns("insert")
    /\ key_type \in {"String", "Custom"}
    /\ HasIdentity(last'.document)
    /\ IdentityOf(last'.document) \in DOMAIN documents

\* The insert has replaced the entry of the document's identity, value and
\* expiration, and touched no other entry.
Replaced ==
    LET d == last'.document
        id == IdentityOf(d)
    IN  /\ last'.res = Inserted(id, d)
        /\ documents' = [documents EXCEPT
                            ![id] = [value |-> d,
                                     expiration |-> Resolved(last'.ttl, now)]]

C23_InsertResolvesTtl ==
    [][Returns("insert") /\ last'.res.kind = "Inserted" =>
          documents'[last'.res.id].expiration = Resolved(last'.ttl, now)]_vars

\* An insert without a TTL into a collection of a database whose default is
\* GlobalTTL(1) stored no expiration, next to a document that an insert at
\* time 2 with CustomTTL(1) stored with expiration 3.
C23_Witness ==
    /\ last.op = "insert" /\ last.res.kind = "Inserted" /\ last.ttl = None
    /\ db_ttl = GlobalTTL(1)
    /\ documents[last.res.id].expiration = None
    /\ \E k \in DOMAIN documents : documents[k].expiration = Some(3)

\* The step in which thread t runs its insert.
Runs(t) == threads[t].pc = "called" /\ threads'[t].pc = "done"

\* C24: for any interleaving of inserts issued concurrently on one
\* Increment collection, every insert advances the counter by one (the
\* counter is the number of inserts run, none lost) and the identity it
\* obtains, the text of the new counter, was handed to no insert before.
C24_CounterRaceFree ==
    [][\A t \in Threads : Runs(t) =>
          /\ next_id' = next_id + 1
          /\ next_id' = threads'[1].n + threads'[2].n
          /\ to_string(next_id') \notin returned
          /\ to_string(next_id') \notin DOMAIN documents
          /\ threads'[t].res.kind = "Inserted" =>
                threads'[t].res.id = to_string(next_id')]_vars

\* Two inserts issued while the counter was 0, before either ran, have both
\* run and hold the identities "1" and "2".
C24_Witness ==
    /\ \A t \in Threads : /\ threads[t].pc = "done" /\ threads[t].at = 0
                          /\ threads[t].res.kind = "Inserted"
    /\ {threads[t].res.id : t \in Threads} = {Str(1), Str(2)}
    /\ next_id = 2

\* Threads t and u issued their inserts before either ran, with an equal
\* value for the unique data field.
Together(t, u) ==
    /\ t # u
    /\ threads[t].pc # "idle" /\ threads[u].pc # "idle"
    /\ threads[t].at = threads[u].at
    /\ "age" \in unique_keys
    /\ Get(threads[t].document, "age") # None
    /\ Get(threads[t].document, "age") = Get(threads[u].document, "age")

\* Two resident documents hold an equal value for a unique field.
SharedUnique ==
    \E j \in DOMAIN documents, k \in DOMAIN documents, f \in unique_keys :
        /\ j # k
        /\ Get(documents[j].value, f) # None
        /\ Get(documents[j].value, f) = Get(documents[k].value, f)

\* C25 as claimed: of two inserts in flight together that carry the same
\* unique value, after one has written the other can still pass the
\* uniqueness check, which leaves two resident documents sharing the value.
C25_BothCanPass ==
    \A t \in Threads, u \in Threads :
        /\ Together(t, u)
        /\ threads[t].pc = "done" /\ threads[t].res.kind = "Inserted"
        /\ threads[u].pc = "called"
        => ENABLED (ThreadInsert(u) /\ threads'[u].res.kind = "Inserted"
                    /\ SharedUnique')

\* C25, amended: inserts on one collection run one at a time, so of two
\* inserts in flight together that carry the same unique value under
\* different identities the second to run fails with DuplicateUniqueValue,
\* and inserts never leave two resident documents sharing a unique value.
C25_InsertsRunOneAtATime ==
    /\ ~SharedUnique
    /\ \A t \in Threads, u \in Threads :
          /\ Together(t, u)
          /\ threads[t].pc = "done" /\ threads[u].pc = "done"
          /\ threads[t].res.kind = "Inserted"
          => threads[u].res = Err("DuplicateUniqueValue")

\* Both inserts were issued at counter 0 with age 1: the one that ran first
\* is resident under "1", the other was refused.
C25_Witness ==
    /\ Together(1, 2)
    /\ threads[1].at = 0
    /\ threads[1].pc = "done" /\ threads[2].pc = "done"
    /\ threads[2].res.kind = "Inserted" /\ threads[2].res.id = Str(1)
    /\ threads[1].res = Err("DuplicateUniqueValue")
    /\ DOMAIN documents = {Str(1)}
    /\ next_id = 2

\* The three faults of a configuration that the contract of validate names.
CustomWithoutKey(c) == c.key_type = Some("Custom") /\ c.key_field = None
KeyNotDeclared(c) ==
    /\ c.key_field # None
    /\ c.key_field[1] \notin {c.field_types[i][1] : i \in 1..Len(c.field_types)}
BothNullAndNotNull(c) ==
    {c.not_null_fields[i] : i \in 1..Len(c.not_null_fields)}
        \cap {c.nullable_fields[i] : i \in 1..Len(c.nullable_fields)} # {}

\* C26: validate returns an error exactly when the key type is Custom with
\* no key field, or the key field is not among the field_types names, or a
\* field is both not-null and nullable; otherwise Ok; and it leaves the
\* configuration as it was.
C26_ValidateContract ==
    [][validation = None /\ validation' # None =>
          /\ validation'[1].kind \in {"Ok", "Err"}
          /\ validation'[1].kind = "Err" <=>
                \/ CustomWithoutKey(config)
                \/ KeyNotDeclared(config)
                \/ BothNullAndNotNull(config)
          /\ config' = config]_vars

\* validate refused a configuration whose only fault is a field in both
\* lists: the key field is declared, the key type is Custom.
C26_Witness ==
    /\ validation # None /\ validation[1].kind = "Err"
    /\ config.key_type = Some("Custom") /\ config.key_field = Some("id")
    /\ ~KeyNotDeclared(config)
    /\ BothNullAndNotNull(config)

\* The entries of docs whose expiration has not passed at time t.
LiveEntries(docs, t) == [k \in {j \in DOMAIN docs : Live(docs[j], t)} |-> docs[k]]

\* C27: the uniqueness check of insert considers only live entries: when
\* every resident document that holds an equal value for a unique field has
\* expired, an insert that gets past key generation succeeds.
C27_ExpiredDoNotBlock ==
    [][(/\ Returns("insert")
        /\ KeyGenerated(last'.document)
        /\ Conflicts(documents, last'.document, to_string(next_id'))
        /\ ~Conflicts(LiveEntries(documents, now), last'.document,
                      to_string(next_id')))
       => last'.res.kind = "Inserted"]_vars

\* The joined rows of the source documents, before filters and transform,
\* when the target map yields its keys in the order torder.
JoinedRows(torder) ==
    {JoinRow(documents[k].value, target, torder, join) : k \in DOMAIN documents}

\* C28: JoinBuilder::execute evaluates the post-join filters on the joined
\* row before the transform: the transform is called on exactly the rows
\* that pass every filter, untransformed, the rows returned are its outputs
\* in order, and a row failing a filter is dropped without a call.
C28_FiltersBeforeTransform ==
    (last.op = "join.execute" /\ join.map_function # None) =>
        /\ \A i \in 1..Len(transformed) : AllMatch(join.filters, transformed[i])
        /\ results[1] = [i \in 1..Len(transformed) |->
                            MapFn(join.map_function[1], transformed[i])]
        /\ \E torder \in IterOrders(target) :
              {transformed[i] : i \in 1..Len(transformed)} =
                  {row \in JoinedRows(torder) : AllMatch(join.filters, row)}

\* A join with the filter joined_age >= 1 and the transform "zero" returned
\* one row, whose joined_age the transform set to 0 after the filter had
\* accepted it, and dropped another source document's row.
C28_Witness ==
    /\ last.op = "join.execute"
    /\ join.map_function = Some("zero")
    /\ join.filters = <<Filter("gte", "joined_age", 1)>>
    /\ Len(results[1]) = 1
    /\ results[1][1]["joined_age"] = Num(0)
    /\ Cardinality(DOMAIN documents) = 2

\* The source fields of a result row: what is left without the joined_ keys.
SourceFields(row) == [f \in DOMAIN row \cap Fields |-> row[f]]

\* C29: a join invoked through a query processes only the source documents
\* that passed the filters of the query, and every row it returns holds the
\* source fields of exactly one of them, the one it was produced for.
C29_JoinRowsOfFilteredSource ==
    last.op = "execute.join" =>
        \A i \in 1..Len(results[1]) :
            \E id \in Accepted(query) :
                SourceFields(results[1][i]) = documents[id].value

\* C30: a mapper registered with QueryBuilder::map is applied to the
\* documents of the query: every document execute returns is the selection
\* of a stored document as the mapper modified it.
C30_MapperApplied ==
    last.op = "execute" =>
        \A k \in 1..Len(query.filters) : query.filters[k].f = "map" =>
            \A i \in 1..Len(results[1]) :
                \E id \in DOMAIN documents :
                    results[1][i] =
                        Project(query.selected_fields,
                                Mapper(query.filters[k].value, documents[id].value))

\* C31: QueryBuilder::execute and JoinBuilder::execute are read-only: the
\* step in which either returns leaves the documents map (identities,
\* values, expirations) and the counter of the source collection and of the
\* joined target collection as they were.
C31_ExecuteReadsOnly ==
    [][(last = Idle /\ last'.op \in {"execute", "execute.join", "join.execute"}) =>
          /\ documents' = documents /\ next_id' = next_id
          /\ target' = target /\ target_next_id' = target_next_id]_vars

\* A join has returned a row from a source collection with an expiring
\* document and a target collection with a document, both counters at 1.
C31_Witness ==
    /\ last.op = "join.execute"
    /\ results # None /\ Len(results[1]) = 1
    /\ next_id = 1 /\ target_next_id = 1
    /\ DOMAIN documents = {Str(1)} /\ DOMAIN target = {Str(1)}
    /\ documents[Str(1)].expiration # None
    /\ "joined_id" \in DOMAIN results[1][1]

\* C32: in every state reachable by insert, update, upsert and delete on a
\* collection with a key field, the document of each resident entry holds in
\* its key field the string equal to the identity the entry is stored under.
C32_KeyFieldIsIdentity ==
    key_field # None =>
        \A id \in DOMAIN documents :
            Get(documents[id].value, key_field[1]) = Some(id)

\* Under Increment an insert of a document that supplied the key "2" has
\* stored it under "1", with "1" written into its key field.
C32_Witness ==
    /\ key_type = "Increment" /\ key_field = Some("id")
    /\ last.op = "insert" /\ last.res.kind = "Inserted"
    /\ Get(last.document, "id") = Some(Str(2))
    /\ last.res.id = Str(1)
    /\ documents[Str(1)].value["id"] = Str(1)

UpsertWithoutKeyFails ==
    (Returns("upsert") /\ ~HasIdentity(last'.document)) =>
        /\ last'.res.kind = "Err"
        /\ documents' = documents /\ next_id' = next_id

\* The step in which upsert returns, under Increment or UUID, for a document
\* whose supplied identity is not resident.
ReturnsUpsertOfNew ==
    /\ Returns("upsert")
    /\ key_type \in {"Increment", "UUID"}
    /\ HasIdentity(last'.document)
    /\ IdentityOf(last'.document) \notin DOMAIN documents

\* The document is now stored under the identity returned, a generated one,
\* which is written over the supplied one in its key field.
StoredUnderGenerated ==
    LET d == last'.document  id == last'.res.id IN
    /\ last'.res.kind = "Inserted"
    /\ IF key_type = "Increment" THEN id = to_string(next_id + 1)
       ELSE id \in UuidPool \ DOMAIN documents
    /\ last'.res.document = [d EXCEPT ![key_field[1]] = id]
    /\ DOMAIN documents' = DOMAIN documents \cup {id}
    /\ documents'[id].value = [d EXCEPT ![key_field[1]] = id]

\* C34 as claimed: upsert fails and changes nothing without a string key
\* field on the document; under Increment or UUID, upsert of a document
\* whose supplied identity is not resident inserts it under a generated
\* identity that replaces the supplied one, and the returned id differs from
\* the supplied key value.
C34_UpsertIdDiffersFromSupplied ==
    [][/\ UpsertWithoutKeyFails
       /\ ReturnsUpsertOfNew =>
             /\ StoredUnderGenerated
             /\ last'.res.id # IdentityOf(last'.document)]_vars

\* C34 as amended: the same, except that the insert can fail the uniqueness
\* check, leaving the collection as it was, and that the generated identity
\* can be equal to the supplied one.
C34_UpsertIdIsGenerated ==
    [][/\ UpsertWithoutKeyFails
       /\ ReturnsUpsertOfNew =>
             IF Conflicts(documents, last'.document, to_string(next_id'))
             THEN /\ last'.res = Err("DuplicateUniqueValue")
                  /\ documents' = documents
             ELSE StoredUnderGenerated]_vars

\* Under Increment an upsert of a document that supplied "2", not resident,
\* has stored it under the generated "1".
C34_Witness ==
    /\ key_type = "Increment"
    /\ last.op = "upsert" /\ last.res.kind = "Inserted"
    /\ last.document["id"] = Str(2)
    /\ last.res.id = Str(1)
    /\ DOMAIN documents = {Str(1)}
    /\ documents[Str(1)].value["id"] = Str(1)

\* C35: neq is the exact complement of eq: for every document, key and
\* text, neq(key, text) accepts the document exactly when eq(key, text)
\* rejects it, so a query with neq returns the documents that the query
\* with eq leaves out.
C35_NeqIsComplementOfEq ==
    /\ \A id \in DOMAIN documents, key \in Fields, value \in PredValues :
          NeqMatches(documents[id].value, key, value)
              <=> ~EqMatches(documents[id].value, key, value)
    /\ (/\ last.op = "execute"
        /\ Len(query.filters) = 1 /\ query.filters[1].f = "neq")
       => LET rejected == {id \in DOMAIN documents :
                              ~EqMatches(documents[id].value,
                                         query.filters[1].key,
                                         query.filters[1].value)}
          IN  /\ {results[1][i] : i \in 1..Len(results[1])}
                     = {documents[id].value : id \in rejected}
              /\ Len(results[1]) = Cardinality(rejected)

\* neq("age", text that is no number) has returned both documents: one
\* whose age is the number 1 and one whose age is null.
C35_Witness ==
    /\ last.op = "execute"
    /\ query.filters = <<Filter("neq", "age", Str(0 - 1))>>
    /\ Len(results[1]) = 2
    /\ \E i, j \in 1..2 : /\ Get(results[1][i], "age") = Some(Num(1))
                          /\ Get(results[1][j], "age") = Some(Null)

\* A call on the collection that build returned, and a call on the collection
\* the database holds under the name.
ReturnsOnReturned == \E op \in {"insert", "update", "delete"} : Returns(op)
ReturnsOnRegistered ==
    \E op \in {"registered.insert", "registered.delete"} : Returns(op)

\* C36: CollectionBuilder.build registers in the database an independent
\* copy of the collection it returns: an insert, update or delete through
\* the returned collection leaves the documents and the counter of the
\* collection stored in the database as they were, and an insert or delete
\* through the stored collection leaves those of the returned one.
C36_RegisteredIsIndependentCopy ==
    [][/\ ReturnsOnReturned => registered' = registered
       /\ ReturnsOnRegistered =>
            /\ documents' = documents
            /\ next_id' = next_id]_vars

\* An insert through the database has just returned Inserted; the returned
\* collection holds a document the stored one lacks, and the stored one a
\* document the returned one lacks.
C36_Witness ==
    /\ last.op = "registered.insert"
    /\ last.res.kind = "Inserted"
    /\ \E key \in DOMAIN documents :
          \/ key \notin DOMAIN registered.documents
          \/ registered.documents[key].value # documents[key].value
    /\ \E key \in DOMAIN registered.documents :
          \/ key \notin DOMAIN documents
          \/ registered.documents[key].value # documents[key].value
=============================================================================
